---- MODULE Spec2Model ----
(***************************************************************************)
(* A model of the prosody modification engine of src/f5_tts/infer/         *)
(* prosody.py: modify_prosody and the helpers it calls (insert_silence,    *)
(* apply_fade, crossfade_segments, change_speed_pitch, detect_silence).    *)
(*                                                                         *)
(* Numbers.  A sample value is an exact rational <<n, d>> (d > 0, reduced),*)
(* standing for the float the code holds.  A time (seconds in the code) is *)
(* an integer number of ticks, TicksPerSample ticks to one sample period,  *)
(* so that int(t * sr) is t \div TicksPerSample and truncates as the code  *)
(* does.                                                                  *)
(*                                                                         *)
(* Arrays.  A numpy array handed around by the code is either a view of    *)
(* the source buffer y (a basic slice y[a:b]) or an array of its own; a    *)
(* view is kept as its bounds and read through y when it is used, so that  *)
(* an in-place write to y shows through every view, as in numpy.           *)
(***************************************************************************)
EXTENDS Integers, Sequences, FiniteSets, TLC

\* ------------------------------------------------------------------ bounds
MaxLen == 3
MaxEdits == 2
TicksPerSample == 2

\* --------------------------------------------------------------- rationals
\* Python's None; a value that may be None is held as <<v>> or None
None == <<>>
Some(v) == <<v>>

Abs(x) == IF x < 0 THEN -x ELSE x
Min(a, b) == IF a < b THEN a ELSE b
Max(a, b) == IF a > b THEN a ELSE b

RECURSIVE GCD(_, _)
GCD(a, b) == IF b = 0 THEN a ELSE GCD(b, a % b)

Rat(n, d) == LET g == GCD(Abs(n), d) IN <<n \div g, d \div g>>
Zero == <<0, 1>>
One == <<1, 1>>
RMul(a, b) == Rat(a[1] * b[1], a[2] * b[2])
RAdd(a, b) == Rat(a[1] * b[2] + b[1] * a[2], a[2] * b[2])
RAbs(a) == <<Abs(a[1]), a[2]>>
RLt(a, b) == a[1] * b[2] < b[1] * a[2]
RLeq(a, b) == a[1] * b[2] <= b[1] * a[2]
\* a / b for b > 0
RDiv(a, b) == Rat(a[1] * b[2], a[2] * b[1])
\* np.clip(x, -1.0, 1.0)
Clip(a) == IF RLt(One, a) THEN One ELSE IF RLt(a, <<-1, 1>>) THEN <<-1, 1>> ELSE a

\* int(t * sr) of a time t in ticks: truncation toward zero
IntSamples(t) == IF t >= 0 THEN t \div TicksPerSample ELSE -((-t) \div TicksPerSample)

\* ------------------------------------------------------------------ arrays
\* y[a:b] for integers 0 <= a, 0 <= b: the bounds numpy clamps the slice to
SliceLo(n, a) == Min(a, n)
SliceHi(n, a, b) == Max(SliceLo(n, a), Min(b, n))
\* kind says what the walk appended the array as ("gap", "edit", "silence",
\* "between", "trailing"); lo and hi are the source range [lo, hi) the array
\* was read from, which an array of its own keeps for the record only
View(n, a, b, kind) ==
    [view |-> TRUE, lo |-> SliceLo(n, a), hi |-> SliceHi(n, a, b), data |-> <<>>, kind |-> kind]
Own(d, kind) == [view |-> FALSE, lo |-> 0, hi |-> 0, data |-> d, kind |-> kind]
OwnOf(seg, d) == [seg EXCEPT !.view = FALSE, !.data = d]
\* the samples an array holds, read through the buffer buf when it is a view
Samples(seg, buf) == IF seg.view THEN SubSeq(buf, seg.lo + 1, seg.hi) ELSE seg.data

Zeros(n) == [i \in 1..n |-> Zero]

RECURSIVE PeakOf(_)
PeakOf(s) ==
    IF s = <<>> THEN Zero
    ELSE LET p == PeakOf(Tail(s)) a == RAbs(Head(s)) IN IF RLt(p, a) THEN a ELSE p

\* np.linspace(0.0, 1.0, n)[k] and np.linspace(1.0, 0.0, n)[k], k = 0..n-1
LinUp(n, k) == IF n = 1 THEN Zero ELSE Rat(k, n - 1)
LinDown(n, k) == IF n = 1 THEN One ELSE Rat(n - 1 - k, n - 1)

\* ------------------------------------------------------------ result values
Ok(v) == [ok |-> TRUE, val |-> v]
Raise == [ok |-> FALSE, val |-> <<>>]

\* ----------------------------------------------------------- pure functions
\* insert_silence: np.zeros(int(duration * sr)); np.zeros of a negative count raises
insert_silence(duration) ==
    LET n == IntSamples(duration) IN IF n < 0 THEN Raise ELSE Ok(Zeros(n))

\* round() of num/den (num >= 0, den > 0), ties to the even integer
RoundHalfEven(num, den) ==
    LET q == num \div den
        r == num % den
    IN  IF 2 * r < den THEN q
        ELSE IF 2 * r > den THEN q + 1
        ELSE IF q % 2 = 0 THEN q ELSE q + 1

\* change_speed_pitch: librosa's time_stretch and pitch_shift.  The library is
\* outside the repository: its result is a new array of round(len / speed)
\* samples whose values the model does not compute (every sample is lib.amp),
\* or it raises (lib.raises).
change_speed_pitch(seg, speed, pitch, lib) ==
    IF lib.raises THEN Raise
    ELSE LET n == IF speed # 1 THEN RoundHalfEven(Len(seg), speed) ELSE Len(seg)
         IN  Ok([i \in 1..n |-> lib.amp])

\* a fade window that takes the whole segment
FadeSamples_whole(n, fade_duration) == n

\* fade_samples of apply_fade
FadeSamples(n, fade_duration) ==
    LET f == IntSamples(fade_duration) IN IF f > n THEN n ELSE f

\* apply_fade on the samples of y: y[:f] *= fade_in, then y[-f:] *= fade_out.
\* With f = 0, y[-0:] is the whole array and the in-place product with an
\* empty ramp raises unless the array is empty too.
apply_fade(seg, fade_duration) ==
    LET n == Len(seg)
        f == FadeSamples(n, fade_duration)
        in1 == [i \in 1..n |-> IF i <= f THEN RMul(seg[i], LinUp(f, i - 1)) ELSE seg[i]]
        out == [i \in 1..n |->
                   IF i > n - f THEN RMul(in1[i], LinDown(f, i - (n - f) - 1)) ELSE in1[i]]
    IN  IF f = 0 /\ n > 0 THEN Raise ELSE Ok(out)

\* crossfade_samples of crossfade_segments
CrossfadeSamples(n1, n2, crossfade_duration) ==
    LET c0 == IntSamples(crossfade_duration)
        c1 == IF c0 > n1 THEN n1 ELSE c0
    IN  IF c1 > n2 THEN n2 ELSE c1

\* crossfade_segments.  With c = 0, seg1[-0:] is all of seg1 and its product
\* with the empty ramp raises when seg1 has two samples or more; otherwise
\* seg1[:-0] is empty and the result is seg2 alone.
crossfade_segments(seg1, seg2, crossfade_duration) ==
    LET n1 == Len(seg1)
        n2 == Len(seg2)
        c == CrossfadeSamples(n1, n2, crossfade_duration)
        mix == [k \in 1..c |->
                   RAdd(RMul(seg1[n1 - c + k], LinDown(c, k - 1)),
                        RMul(seg2[k], LinUp(c, k - 1)))]
    IN  IF c = 0
        THEN IF n1 >= 2 THEN Raise ELSE Ok(seg2)
        ELSE Ok(SubSeq(seg1, 1, n1 - c) \o mix \o SubSeq(seg2, c + 1, n2))

\* amin of librosa.amplitude_to_db
Amin == <<1, 100000>>
RMax(a, b) == IF RLt(a, b) THEN b ELSE a

\* silent_frames[i] of detect_silence: y_db[i] < silence_thresh, where y_db is
\* the level of max(amin, |y[i]|) relative to max(amin, peak) and the
\* threshold is given as the amplitude ratio 10^(silence_thresh/20)
IsSilent(a, peak, thresh) == RLt(RMax(Amin, RAbs(a)), RMul(thresh, RMax(Amin, peak)))

\* a loop that forgets the run still open when the waveform ends
RECURSIVE SilentRuns_noTail(_, _, _, _, _)
SilentRuns_noTail(frames, i, start, min_silence_len, acc) ==
    IF i > Len(frames) THEN acc
    ELSE IF frames[i] /\ start = None
         THEN SilentRuns_noTail(frames, i + 1, Some(i - 1), min_silence_len, acc)
    ELSE IF ~frames[i] /\ start # None
         THEN SilentRuns_noTail(frames, i + 1, None, min_silence_len,
                         IF (i - 1 - start[1]) * TicksPerSample >= min_silence_len
                         THEN Append(acc, [start_sec |-> start[1] * TicksPerSample,
                                           end_sec |-> (i - 1) * TicksPerSample])
                         ELSE acc)
    ELSE SilentRuns_noTail(frames, i + 1, start, min_silence_len, acc)

\* the loop of detect_silence over silent_frames[i..]: start is the 0-based
\* index where the open run began, or None.  A run is kept when
\* (end - start) / sr >= min_silence_len and is reported in seconds.
RECURSIVE SilentRuns(_, _, _, _, _)
SilentRuns(frames, i, start, min_silence_len, acc) ==
    IF i > Len(frames)
    THEN IF start # None /\ (Len(frames) - start[1]) * TicksPerSample >= min_silence_len
         THEN Append(acc, [start_sec |-> start[1] * TicksPerSample,
                           end_sec |-> Len(frames) * TicksPerSample])
         ELSE acc
    ELSE IF frames[i] /\ start = None
         THEN SilentRuns(frames, i + 1, Some(i - 1), min_silence_len, acc)
    ELSE IF ~frames[i] /\ start # None
         THEN SilentRuns(frames, i + 1, None, min_silence_len,
                         IF (i - 1 - start[1]) * TicksPerSample >= min_silence_len
                         THEN Append(acc, [start_sec |-> start[1] * TicksPerSample,
                                           end_sec |-> (i - 1) * TicksPerSample])
                         ELSE acc)
    ELSE SilentRuns(frames, i + 1, start, min_silence_len, acc)

\* detect_silence: np.max of an empty array raises
detect_silence(buf, min_silence_len, silence_thresh) ==
    IF buf = <<>> THEN Raise
    ELSE LET peak == PeakOf(buf)
             frames == [i \in 1..Len(buf) |-> IsSilent(buf[i], peak, silence_thresh)]
         IN  Ok(SilentRuns(frames, 1, None, min_silence_len, <<>>))

\* ------------------------------------------------------------ modifications
\* A modification is a dict of the caller; the model holds it as a record:
\*   id             its position in the caller's list (the dict's identity)
\*   type           "silence" or "prosody"
\*   has_start      whether the dict has the key 'start_time'
\*   start_time, end_time   <<ticks>>, or None (mod.get gives None)
\*   duration       ticks
\*   pitch_shift    semitones; volume_change  dB; speed_change  factor
\* 10 ** (volume_change / 20), rounded to a rational: +6 dB doubles, -6 dB halves
VolumeFactor(db) == IF db > 0 THEN <<2, 1>> ELSE IF db < 0 THEN <<1, 2>> ELSE One

\* a sort that puts an edit before the edits of equal start_time
RECURSIVE InsertByStart_unstable(_, _)
InsertByStart_unstable(e, s) ==
    IF s = <<>> THEN <<e>>
    ELSE IF e.start_time[1] <= Head(s).start_time[1]
         THEN <<e>> \o s
         ELSE <<Head(s)>> \o InsertByStart_unstable(e, Tail(s))

\* one insertion of a stable insertion sort: e goes after every element whose
\* key is <= its own (sorted() compares with < only and never swaps equal keys)
RECURSIVE InsertByStart(_, _)
InsertByStart(e, s) ==
    IF s = <<>> THEN <<e>>
    ELSE IF e.start_time[1] < Head(s).start_time[1]
         THEN <<e>> \o s
         ELSE <<Head(s)>> \o InsertByStart(e, Tail(s))

RECURSIVE SortedByStart(_)
SortedByStart(mods) ==
    IF mods = <<>> THEN <<>>
    ELSE InsertByStart(mods[Len(mods)], SortedByStart(SubSeq(mods, 1, Len(mods) - 1)))

\* sorted(modifications, key=lambda x: x['start_time']): KeyError when a dict
\* lacks the key, TypeError when None is compared (two elements or more)
sorted_modifications(mods) ==
    IF \E i \in 1..Len(mods) : ~mods[i].has_start THEN Raise
    ELSE IF Len(mods) >= 2 /\ \E i \in 1..Len(mods) : mods[i].start_time = None THEN Raise
    ELSE IF Len(mods) <= 1 THEN Ok(mods)
    ELSE Ok(SortedByStart(mods))

\* ------------------------------------------------------------ the edit walk
\* The walk's state: the buffer y, the list segments, the cursor last_end_sec,
\* what the logger has recorded, and how the call stands: "ok" (running on),
\* "failure" (a {'success': False, ...} was returned), "exception" (an
\* exception left modify_prosody).
\* an error that is logged and then ignored
Fail_continue(w, what) == [w EXCEPT !.log = Append(w.log, what)]
Fail(w, what) == [w EXCEPT !.status = "failure", !.log = Append(w.log, what)]
Escape(w) == [w EXCEPT !.status = "exception"]
Logged(w, what) == [w EXCEPT !.log = Append(w.log, what)]

\* a gap slice appended whether or not start_time lies past the cursor
AddGap_always(w, start_time, idx) ==
    [w EXCEPT !.segments = Append(w.segments,
                  View(Len(w.y), IntSamples(w.last_end_sec), IntSamples(start_time), "gap")),
              !.log = Append(w.log, <<"gap", idx>>)]

\* "Agregar segmento sin modificar": the gap y[int(last_end_sec * sr):start_sample]
AddGap(w, start_time, idx) ==
    IF start_time > w.last_end_sec
    THEN [w EXCEPT !.segments = Append(w.segments,
                       View(Len(w.y), IntSamples(w.last_end_sec), IntSamples(start_time), "gap")),
                   !.log = Append(w.log, <<"gap", idx>>)]
    ELSE w

\* a silence edit that takes its duration out of the source timeline
ProcessSilence_consuming(w, mod, idx, total_duration_sec) ==
    IF mod.start_time = None THEN Fail(w, <<"error_start_time", idx>>)
    ELSE LET start_time == mod.start_time[1] IN
    IF start_time < 0 \/ start_time > total_duration_sec
    THEN Fail(w, <<"error_invalid", idx>>)
    ELSE LET g == AddGap(w, start_time, idx)
             silence_segment == insert_silence(mod.duration)
         IN  IF ~silence_segment.ok THEN Escape(g)
             ELSE [g EXCEPT !.segments = Append(g.segments, Own(silence_segment.val, "silence")),
                            !.log = Append(g.log, <<"silence", idx>>),
                            !.last_end_sec = start_time + mod.duration]

\* a silence branch that accepts a start_time past the end of the audio
ProcessSilence_anyStart(w, mod, idx, total_duration_sec) ==
    IF mod.start_time = None THEN Fail(w, <<"error_start_time", idx>>)
    ELSE LET start_time == mod.start_time[1] IN
    IF start_time < 0
    THEN Fail(w, <<"error_invalid", idx>>)
    ELSE LET g == AddGap(w, start_time, idx)
             silence_segment == insert_silence(mod.duration)
         IN  IF ~silence_segment.ok THEN Escape(g)
             ELSE [g EXCEPT !.segments = Append(g.segments, Own(silence_segment.val, "silence")),
                            !.log = Append(g.log, <<"silence", idx>>),
                            !.last_end_sec = start_time]

\* the branch mod.get('type') == 'silence' of the loop body
ProcessSilence(w, mod, idx, total_duration_sec) ==
    IF mod.start_time = None THEN Fail(w, <<"error_start_time", idx>>)
    ELSE LET start_time == mod.start_time[1] IN
    IF start_time < 0 \/ start_time > total_duration_sec
    THEN Fail(w, <<"error_invalid", idx>>)
    ELSE LET g == AddGap(w, start_time, idx)
             silence_segment == insert_silence(mod.duration)
         IN  IF ~silence_segment.ok THEN Escape(g)
             ELSE [g EXCEPT !.segments = Append(g.segments, Own(silence_segment.val, "silence")),
                            !.log = Append(g.log, <<"silence", idx>>),
                            !.last_end_sec = start_time]

\* the transform steps of a prosody edit on the extracted segment: speed and
\* pitch, volume, fades.  A view that reaches apply_fade is faded in place,
\* that is, in the buffer y.
TransformSegment(w, mod, idx, segment, lib, fade_duration) ==
    LET needs == mod.speed_change # 1 \/ mod.pitch_shift # 0
        sp == IF needs
              THEN change_speed_pitch(Samples(segment, w.y), mod.speed_change, mod.pitch_shift, lib)
              ELSE Ok(<<>>)
        seg1 == IF needs /\ sp.ok THEN OwnOf(segment, sp.val) ELSE segment
        w1 == IF needs /\ sp.ok THEN Logged(w, <<"speed_pitch", idx>>) ELSE w
        vol == mod.volume_change # 0
        seg2 == IF vol
                THEN OwnOf(seg1, [i \in 1..Len(Samples(seg1, w.y)) |->
                             Clip(RMul(Samples(seg1, w.y)[i], VolumeFactor(mod.volume_change)))])
                ELSE seg1
        w2 == IF vol THEN Logged(w1, <<"volume", idx>>) ELSE w1
        fd == apply_fade(Samples(seg2, w.y), fade_duration)
        seg3 == IF seg2.view THEN seg2 ELSE OwnOf(seg2, fd.val)
        y3 == IF seg2.view
              THEN [i \in 1..Len(w.y) |->
                       IF i > seg2.lo /\ i <= seg2.hi THEN fd.val[i - seg2.lo] ELSE w.y[i]]
              ELSE w.y
    IN  IF needs /\ ~sp.ok THEN [w |-> Fail(w, <<"error_speed_pitch", idx>>), segment |-> segment]
        ELSE IF ~fd.ok THEN [w |-> Fail(w2, <<"error_fade", idx>>), segment |-> seg2]
        ELSE [w |-> [w2 EXCEPT !.y = y3, !.log = Append(w2.log, <<"fade", idx>>)],
              segment |-> seg3]

\* a prosody branch that moves the cursor to the edit's end_time as given,
\* not to the clamped one
ProcessProsody_unclamped(w, mod, idx, n, total_duration_sec, lib, o) ==
    IF mod.start_time = None THEN Escape(w)
    ELSE LET start_time == mod.start_time[1] IN
    IF start_time < 0 THEN Fail(w, <<"error_invalid", idx>>)
    ELSE IF mod.end_time = None THEN Escape(w)
    ELSE IF mod.end_time[1] <= start_time THEN Fail(w, <<"error_invalid", idx>>)
    ELSE LET end_time == IF mod.end_time[1] > total_duration_sec
                         THEN total_duration_sec ELSE mod.end_time[1]
             g == AddGap(w, start_time, idx)
             segment == View(Len(g.y), IntSamples(start_time), IntSamples(end_time), "edit")
             t == TransformSegment(g, mod, idx, segment, lib, o.fade_duration)
             silence == insert_silence(o.silence_between_mods)
             between == idx < n - 1
         IN  IF t.w.status # "ok" THEN t.w
             ELSE IF between /\ ~silence.ok THEN Fail(t.w, <<"error_between", idx>>)
             ELSE [t.w EXCEPT
                     !.segments = IF between
                                  THEN t.w.segments \o <<Own(silence.val, "between"), t.segment>>
                                  ELSE Append(t.w.segments, t.segment),
                     !.log = IF between THEN Append(t.w.log, <<"between", idx>>) ELSE t.w.log,
                     !.last_end_sec = mod.end_time[1]]

\* the branch mod.get('type') == 'prosody' of the loop body; n is
\* len(modifications_sorted), idx the 0-based position
ProcessProsody(w, mod, idx, n, total_duration_sec, lib, o) ==
    IF mod.start_time = None THEN Escape(w)
    ELSE LET start_time == mod.start_time[1] IN
    IF start_time < 0 THEN Fail(w, <<"error_invalid", idx>>)
    ELSE IF mod.end_time = None THEN Escape(w)
    ELSE IF mod.end_time[1] <= start_time THEN Fail(w, <<"error_invalid", idx>>)
    ELSE LET end_time == IF mod.end_time[1] > total_duration_sec
                         THEN total_duration_sec ELSE mod.end_time[1]
             g == AddGap(w, start_time, idx)
             segment == View(Len(g.y), IntSamples(start_time), IntSamples(end_time), "edit")
             t == TransformSegment(g, mod, idx, segment, lib, o.fade_duration)
             silence == insert_silence(o.silence_between_mods)
             between == idx < n - 1
         IN  IF t.w.status # "ok" THEN t.w
             ELSE IF between /\ ~silence.ok THEN Fail(t.w, <<"error_between", idx>>)
             ELSE [t.w EXCEPT
                     !.segments = IF between
                                  THEN t.w.segments \o <<Own(silence.val, "between"), t.segment>>
                                  ELSE Append(t.w.segments, t.segment),
                     !.log = IF between THEN Append(t.w.log, <<"between", idx>>) ELSE t.w.log,
                     !.last_end_sec = end_time]

\* one iteration of "for idx, mod in enumerate(modifications_sorted)"
ProcessEdit(w, mod, idx, n, total_duration_sec, lib, o) ==
    IF mod.type = "silence" THEN ProcessSilence(w, mod, idx, total_duration_sec)
    ELSE ProcessProsody(w, mod, idx, n, total_duration_sec, lib, o)

\* a trailing slice that begins one sample past the cursor
TrailingSegment_late(w, total_duration_sec) ==
    IF w.last_end_sec < total_duration_sec
    THEN [w EXCEPT !.segments = Append(w.segments,
                       View(Len(w.y), IntSamples(w.last_end_sec) + 1, Len(w.y), "trailing")),
                   !.log = Append(w.log, <<"trailing", 0>>)]
    ELSE w

\* "Agregar el resto del audio sin modificar"
TrailingSegment(w, total_duration_sec) ==
    IF w.last_end_sec < total_duration_sec
    THEN [w EXCEPT !.segments = Append(w.segments,
                       View(Len(w.y), IntSamples(w.last_end_sec), Len(w.y), "trailing")),
                   !.log = Append(w.log, <<"trailing", 0>>)]
    ELSE w

\* the crossfade loop: final_audio = segments[0]; for seg in segments[1:]: ...
RECURSIVE CrossfadeAll(_, _, _)
CrossfadeAll(acc, rest, crossfade_duration) ==
    IF rest = <<>> THEN Ok(acc)
    ELSE LET c == crossfade_segments(acc, Head(rest), crossfade_duration)
         IN  IF c.ok THEN CrossfadeAll(c.val, Tail(rest), crossfade_duration) ELSE Raise

\* reassembly: no segments is a failure, and so is an exception of the loop
Reassemble(w, crossfade_duration) ==
    IF w.segments = <<>> THEN Raise
    ELSE LET arrays == [i \in 1..Len(w.segments) |-> Samples(w.segments[i], w.y)]
         IN  CrossfadeAll(arrays[1], Tail(arrays), crossfade_duration)

\* a normalizer that lets peaks up to 2.0 through
Normalize_loose(audio) ==
    IF audio = <<>> THEN Raise
    ELSE LET max_val == PeakOf(audio)
         IN  IF RLt(<<2, 1>>, max_val)
             THEN Ok([i \in 1..Len(audio) |-> RDiv(audio[i], max_val)])
             ELSE Ok(audio)

\* the normalization step: np.max of an empty array raises
Normalize(audio) ==
    IF audio = <<>> THEN Raise
    ELSE LET max_val == PeakOf(audio)
         IN  IF RLt(One, max_val)
             THEN Ok([i \in 1..Len(audio) |-> RDiv(audio[i], max_val)])
             ELSE Ok(audio)

\* the loop over modifications_sorted from position idx on, as far as it gets
RECURSIVE WalkFrom(_, _, _, _, _, _)
WalkFrom(w, sorted, idx, total_duration_sec, lib, o) ==
    IF idx >= Len(sorted) \/ w.status # "ok" THEN w
    ELSE WalkFrom(ProcessEdit(w, sorted[idx + 1], idx, Len(sorted), total_duration_sec, lib, o),
                  sorted, idx + 1, total_duration_sec, lib, o)

\* modify_prosody from the loaded buffer to the normalized signal, for calls
\* without remove_silence and without a global speed change: sort, walk,
\* trailing slice, reassembly, normalization.  Ok(signal), or Raise when the
\* call ends before the signal is there.
ModifiedSignal(buf, mods, lib, o) ==
    LET srt == sorted_modifications(mods)
        total == Len(buf) * TicksPerSample
        w0 == [y |-> buf, segments |-> <<>>, last_end_sec |-> 0, log |-> <<>>, status |-> "ok"]
        w1 == WalkFrom(w0, srt.val, 0, total, lib, o)
        w2 == TrailingSegment(w1, total)
        joined == Reassemble(w2, o.cross_fade_duration)
    IN  IF ~srt.ok THEN Raise
        ELSE IF w1.status # "ok" THEN Raise
        ELSE IF ~joined.ok THEN Raise
        ELSE Normalize(joined.val)

\* (final_audio * 32767).astype(np.int16): truncation toward zero
Int16Scale == 32767
ToInt16(a) ==
    LET v == a[1] * Int16Scale
    IN  IF v >= 0 THEN v \div a[2] ELSE -((-v) \div a[2])

\* ---------------------------------------------------------------- the state
VARIABLES
    audio_file,            \* the samples stored at audio_path
    modifications,         \* the caller's list
    opts,                  \* the keyword arguments of the call
    pc,                    \* where modify_prosody stands
    y,                     \* the loaded buffer
    total_duration_sec,    \* ticks
    modifications_sorted,
    idx,                   \* 0-based position of the walk
    segments,
    last_end_sec,          \* ticks
    final_audio,
    log,                   \* what the logger recorded, in order
    result,                \* "none", "success", "failure" or "exception"
    output_file,           \* None, or <<the int16 samples written to output_path>>
    call,                  \* the helper called on its own, "none" within modify_prosody
    args,                  \* its arguments
    ret                    \* None until it returns, then <<Ok(value)>> or <<Raise>>

vars == <<audio_file, modifications, opts, pc, y, total_duration_sec, modifications_sorted,
          idx, segments, last_end_sec, final_audio, log, result, output_file,
          call, args, ret>>

\* the state of a direct call of a helper, which modify_prosody leaves alone
helpers == <<call, args, ret>>

inputs == <<audio_file, modifications, opts>>

\* the state of the walk as the record the walk's operators work on
Walk == [y |-> y, segments |-> segments, last_end_sec |-> last_end_sec, log |-> log,
         status |-> "ok"]

\* every return of {'success': False, ...}, and an exception leaving the call
Return(status) ==
    /\ pc' = "done"
    /\ result' = status

\* ------------------------------------------------------------------ actions
\* the outcomes the library can have on one call: it returns an array whose
\* values the model leaves open between two amplitudes, or it raises
LibAmps == {<<1, 2>>, <<3, 2>>}
LibOutcomes == {[raises |-> TRUE, amp |-> Zero]} \cup {[raises |-> FALSE, amp |-> a] : a \in LibAmps}
NoLib == [raises |-> FALSE, amp |-> Zero]

\* the rebuild loop of the silence pre-pass.  detect_silence reports each run
\* as (start / sr, end / sr), two floats, and the first slice y[prev_end:start]
\* with a float bound raises TypeError: the loop body never completes.
RebuildWithoutSilence(buf, silent_ranges, keep_silence) ==
    IF silent_ranges # <<>> THEN Raise ELSE Ok(buf)

\* "if remove_silence:" and its try block
RemoveSilence ==
    /\ pc = "remove_silence"
    /\ UNCHANGED helpers
    /\ IF ~opts.remove_silence
       THEN /\ pc' = "sort"
            /\ UNCHANGED <<y, total_duration_sec, log, result>>
       ELSE LET silent_ranges == detect_silence(y, opts.min_silence_len, opts.silence_thresh)
                rebuilt == IF silent_ranges.ok
                           THEN RebuildWithoutSilence(y, silent_ranges.val, opts.keep_silence)
                           ELSE Raise
            IN  IF rebuilt.ok
                THEN /\ y' = rebuilt.val
                     /\ total_duration_sec' = Len(rebuilt.val) * TicksPerSample
                     /\ log' = Append(log, <<"silence_removed", 0>>)
                     /\ pc' = "sort"
                     /\ UNCHANGED result
                ELSE /\ log' = Append(log, <<"error_remove_silence", 0>>)
                     /\ Return("failure")
                     /\ UNCHANGED <<y, total_duration_sec>>
    /\ UNCHANGED <<inputs, modifications_sorted, idx, segments, last_end_sec, final_audio,
                   output_file>>

\* "Ordenar las modificaciones por start_time"
Sort ==
    /\ pc = "sort"
    /\ UNCHANGED helpers
    /\ LET r == sorted_modifications(modifications)
       IN  IF r.ok
           THEN /\ modifications_sorted' = r.val
                /\ pc' = "walk"
                /\ UNCHANGED <<result, log>>
           ELSE /\ log' = Append(log, <<"error_sort", 0>>)
                /\ Return("failure")
                /\ UNCHANGED modifications_sorted
    /\ UNCHANGED <<inputs, y, total_duration_sec, idx, segments, last_end_sec, final_audio,
                   output_file>>

\* one iteration of the loop over modifications_sorted
WalkStep ==
    /\ pc = "walk"
    /\ UNCHANGED helpers
    /\ idx < Len(modifications_sorted)
    /\ LET mod == modifications_sorted[idx + 1]
           calls == mod.type = "prosody" /\ (mod.speed_change # 1 \/ mod.pitch_shift # 0)
       IN  \E lib \in IF calls THEN LibOutcomes ELSE {NoLib} :
             LET w == ProcessEdit(Walk, mod, idx, Len(modifications_sorted),
                                  total_duration_sec, lib, opts)
             IN  /\ y' = w.y
                 /\ segments' = w.segments
                 /\ last_end_sec' = w.last_end_sec
                 /\ log' = w.log
                 /\ IF w.status = "ok"
                    THEN idx' = idx + 1 /\ UNCHANGED <<pc, result>>
                    ELSE Return(w.status) /\ UNCHANGED idx
    /\ UNCHANGED <<inputs, total_duration_sec, modifications_sorted, final_audio, output_file>>

\* after the loop: the trailing slice
Trailing ==
    /\ pc = "walk"
    /\ UNCHANGED helpers
    /\ idx = Len(modifications_sorted)
    /\ LET w == TrailingSegment(Walk, total_duration_sec)
       IN  /\ segments' = w.segments
           /\ log' = w.log
    /\ pc' = "reassemble"
    /\ UNCHANGED <<inputs, y, total_duration_sec, modifications_sorted, idx, last_end_sec,
                   final_audio, result, output_file>>

\* "Concatenar segmentos con crossfade"
Crossfade ==
    /\ pc = "reassemble"
    /\ UNCHANGED helpers
    /\ LET r == Reassemble(Walk, opts.cross_fade_duration)
       IN  IF r.ok
           THEN /\ final_audio' = r.val
                /\ pc' = "global"
                /\ UNCHANGED <<result, log>>
           ELSE /\ log' = Append(log, <<"error_crossfade", 0>>)
                /\ Return("failure")
                /\ UNCHANGED final_audio
    /\ UNCHANGED <<inputs, y, total_duration_sec, modifications_sorted, idx, segments,
                   last_end_sec, output_file>>

\* "Aplicar cambio de velocidad global"
GlobalSpeed ==
    /\ pc = "global"
    /\ UNCHANGED helpers
    /\ \E lib \in IF opts.global_speed_change # 1 THEN LibOutcomes ELSE {NoLib} :
         LET r == IF opts.global_speed_change # 1
                  THEN change_speed_pitch(final_audio, opts.global_speed_change, 0, lib)
                  ELSE Ok(final_audio)
         IN  IF r.ok
             THEN /\ final_audio' = r.val
                  /\ pc' = "normalize"
                  /\ UNCHANGED <<result, log>>
             ELSE /\ log' = Append(log, <<"error_global_speed", 0>>)
                  /\ Return("failure")
                  /\ UNCHANGED final_audio
    /\ UNCHANGED <<inputs, y, total_duration_sec, modifications_sorted, idx, segments,
                   last_end_sec, output_file>>

\* "Normalizar audio para evitar clipping"
NormalizeAudio ==
    /\ pc = "normalize"
    /\ UNCHANGED helpers
    /\ LET r == Normalize(final_audio)
       IN  IF r.ok
           THEN /\ final_audio' = r.val
                /\ pc' = "save"
                /\ log' = IF r.val # final_audio THEN Append(log, <<"normalized", 0>>) ELSE log
                /\ UNCHANGED result
           ELSE /\ log' = Append(log, <<"error_normalize", 0>>)
                /\ Return("failure")
                /\ UNCHANGED final_audio
    /\ UNCHANGED <<inputs, y, total_duration_sec, modifications_sorted, idx, segments,
                   last_end_sec, output_file>>

\* the int16 conversion and sf.write, which may fail (the file system's choice)
Save ==
    /\ pc = "save"
    /\ UNCHANGED helpers
    /\ \E written \in BOOLEAN :
         IF written
         THEN /\ output_file' = Some([i \in 1..Len(final_audio) |-> ToInt16(final_audio[i])])
              /\ Return("success")
              /\ UNCHANGED log
         ELSE /\ log' = Append(log, <<"error_save", 0>>)
              /\ Return("failure")
              /\ UNCHANGED output_file
    /\ UNCHANGED <<inputs, y, total_duration_sec, modifications_sorted, idx, segments,
                   last_end_sec, final_audio>>

Next ==
    \/ RemoveSilence
    \/ Sort
    \/ WalkStep
    \/ Trailing
    \/ Crossfade
    \/ GlobalSpeed
    \/ NormalizeAudio
    \/ Save

\* ------------------------------------------------------------------- inputs
\* a waveform of n samples with pairwise different values in (0, 1]
Ramp(n) == [i \in 1..n |-> Rat(i, n)]
\* the same, three times as loud: its peak is 3
Loud(n) == [i \in 1..n |-> Rat(3 * i, n)]
\* every waveform of up to n samples over the amplitudes 0, 1/2 and -2
Amps == {Zero, <<1, 2>>, <<-2, 1>>}
Waves(n) == UNION {[1..k -> Amps] : k \in 0..n}

\* times of interest, in ticks, for a waveform of MaxLen samples
K == TicksPerSample
Tt == MaxLen * TicksPerSample

Prosody(start, end, speed, pitch, volume) ==
    [id |-> 0, type |-> "prosody", has_start |-> TRUE, start_time |-> start, end_time |-> end,
     duration |-> 0, pitch_shift |-> pitch, volume_change |-> volume, speed_change |-> speed]
Silence(start, duration) ==
    [id |-> 0, type |-> "silence", has_start |-> TRUE, start_time |-> start, end_time |-> None,
     duration |-> duration, pitch_shift |-> 0, volume_change |-> 0, speed_change |-> 1]
NoStartKey(mod) == [mod EXCEPT !.has_start = FALSE, !.start_time = None]

\* <<speed_change, pitch_shift, volume_change>>: no change, louder, faster
Kinds == {<<1, 0, 0>>, <<1, 0, 6>>, <<2, 0, 0>>}
ValidRanges == {<<0, Tt>>, <<0, K>>, <<K, Tt>>, <<K, 2 * K>>, <<K + 1, Tt + K>>, <<Tt, Tt + K>>,
                <<Tt + K, Tt + 2 * K>>}
InvalidRanges == {<<0 - 1, K>>, <<2 * K, K>>, <<K, K>>}
ProsodyEdits ==
    {Prosody(Some(r[1]), Some(r[2]), k[1], k[2], k[3]) : r \in ValidRanges, k \in Kinds}
    \cup {Prosody(Some(r[1]), Some(r[2]), 1, 0, 0) : r \in InvalidRanges}
    \cup {Prosody(Some(K), None, 1, 0, 0)}
SilenceEdits ==
    {Silence(Some(r[1]), r[2]) :
        r \in {<<0, K>>, <<K, 2 * K>>, <<K, 1>>, <<K + 1, K + 1>>, <<Tt, K>>, <<Tt + 1, K>>,
               <<K, 0 - K>>, <<0, 0>>}}
Edits == ProsodyEdits \cup SilenceEdits
\* dicts that lack 'start_time' or hold None for it
\* three edits to order: two prosody edits and a silence
OrderEdits == {Prosody(Some(0), Some(K), 1, 0, 0), Prosody(Some(K), Some(2 * K), 1, 0, 0),
               Silence(Some(K), K)}
OddEdits == {NoStartKey(Prosody(None, Some(K), 1, 0, 0)), Prosody(None, Some(K), 1, 0, 0),
             Silence(None, K), Prosody(Some(0), Some(K), 1, 0, 0)}

\* every list of up to n dicts of E, each with its position as id
EditLists(E, n) ==
    UNION {{[i \in 1..k |-> [l[i] EXCEPT !.id = i]] : l \in [1..k -> E]} : k \in 0..n}

\* the options of the call: the defaults scaled to the model's sample period
\* (crossfade and fade of two samples, one sample between modifications),
\* and shorter windows down to none
Defaults ==
    [remove_silence |-> FALSE, min_silence_len |-> 2 * K, silence_thresh |-> <<1, 100>>,
     keep_silence |-> K, global_speed_change |-> 1, cross_fade_duration |-> 2 * K,
     fade_duration |-> 2 * K, silence_between_mods |-> K]
WalkOpts ==
    {Defaults,
     [Defaults EXCEPT !.cross_fade_duration = K, !.fade_duration = K],
     [Defaults EXCEPT !.cross_fade_duration = 0, !.fade_duration = K],
     [Defaults EXCEPT !.cross_fade_duration = 0, !.fade_duration = 0,
                      !.silence_between_mods = 0]}
SilenceOpts ==
    {[Defaults EXCEPT !.remove_silence = TRUE, !.min_silence_len = m] : m \in {K, 2 * K}}
GlobalOpts ==
    {[Defaults EXCEPT !.global_speed_change = 2],
     [Defaults EXCEPT !.silence_between_mods = 0 - K]}

\* the families of calls the model starts from
Families ==
    {[waves |-> {Ramp(MaxLen)}, lists |-> EditLists(Edits, MaxEdits), opts |-> WalkOpts],
     [waves |-> {Ramp(MaxLen)}, lists |-> EditLists(OddEdits, MaxEdits), opts |-> {Defaults}],
     [waves |-> {Ramp(MaxLen)}, lists |-> EditLists(OrderEdits, MaxEdits + 1),
      opts |-> {Defaults}],
     [waves |-> Waves(MaxLen) \cup {Loud(MaxLen)}, lists |-> EditLists(Edits, 1),
      opts |-> {Defaults} \cup SilenceOpts],
     [waves |-> {Ramp(MaxLen), Loud(MaxLen)}, lists |-> EditLists(Edits, 1),
      opts |-> GlobalOpts]}

Init ==
    /\ \E f \in Families :
         /\ audio_file \in f.waves
         /\ modifications \in f.lists
         /\ opts \in f.opts
    /\ pc = "remove_silence"
    /\ y = audio_file
    /\ total_duration_sec = Len(audio_file) * TicksPerSample
    /\ modifications_sorted = <<>>
    /\ idx = 0
    /\ segments = <<>>
    /\ last_end_sec = 0
    /\ final_audio = <<>>
    /\ log = <<>>
    /\ result = "none"
    /\ output_file = None
    /\ call = "none"
    /\ args = <<>>
    /\ ret = None

Spec == Init /\ [][Next]_vars

\* ------------------------------------------------- the helpers on their own
\* insert_silence, apply_fade, crossfade_segments and detect_silence are
\* module-level functions: a call of one of them with arguments of its own,
\* outside modify_prosody.
\* every array of up to n samples drawn from A
Arrays(A, n) == UNION {[1..k -> A] : k \in 0..n}
\* durations in ticks: none, below one sample, whole and broken numbers of
\* samples up to past MaxLen samples, and a negative one
Durations == (0 - K)..(Tt + K)
HelperCalls ==
    {[fn |-> "insert_silence", a |-> [duration |-> d]] : d \in Durations}
    \cup {[fn |-> "apply_fade", a |-> [y |-> s, fade_duration |-> d]] :
              s \in Arrays({<<1, 2>>, One}, MaxLen), d \in 0..(Tt + K)}
    \cup {[fn |-> "crossfade_segments",
            a |-> [seg1 |-> s1, seg2 |-> s2, crossfade_duration |-> d]] :
              s1 \in Arrays({<<1, 2>>, One}, MaxLen), s2 \in Arrays({<<1, 4>>}, MaxLen),
              d \in {0, 1, K, K + 1, 2 * K, Tt + K}}
    \cup {[fn |-> "detect_silence",
            a |-> [y |-> s, min_silence_len |-> m, silence_thresh |-> <<1, 100>>]] :
              s \in Arrays({Zero, <<1, 1000>>, One}, MaxLen + 1), m \in {1, K, K + 1, 2 * K}}

InitHelpers ==
    /\ \E c \in HelperCalls : call = c.fn /\ args = c.a
    /\ ret = None
    /\ audio_file = <<>>
    /\ modifications = <<>>
    /\ opts = Defaults
    /\ pc = "done"
    /\ y = <<>>
    /\ total_duration_sec = 0
    /\ modifications_sorted = <<>>
    /\ idx = 0
    /\ segments = <<>>
    /\ last_end_sec = 0
    /\ final_audio = <<>>
    /\ log = <<>>
    /\ result = "none"
    /\ output_file = None

Returns(fn, value) ==
    /\ call = fn
    /\ ret = None
    /\ ret' = Some(value)
    /\ UNCHANGED <<call, args, inputs, pc, y, total_duration_sec, modifications_sorted, idx,
                   segments, last_end_sec, final_audio, log, result, output_file>>

CallInsertSilence == Returns("insert_silence", insert_silence(args.duration))
CallApplyFade == Returns("apply_fade", apply_fade(args.y, args.fade_duration))
CallCrossfadeSegments ==
    Returns("crossfade_segments",
            crossfade_segments(args.seg1, args.seg2, args.crossfade_duration))
CallDetectSilence ==
    Returns("detect_silence", detect_silence(args.y, args.min_silence_len, args.silence_thresh))

NextHelpers ==
    \/ CallInsertSilence
    \/ CallApplyFade
    \/ CallCrossfadeSegments
    \/ CallDetectSilence

SpecHelpers == InitHelpers /\ [][NextHelpers]_vars

\* ------------------------------------------------------------------- claims
LogHas(ev) == \E i \in 1..Len(log) : log[i][1] = ev
LastLog == log[Len(log)]
Sorted == pc \in {"walk", "reassemble", "global", "normalize", "save"}
              \/ (pc = "done" /\ ~LogHas("error_sort") /\ ~LogHas("error_remove_silence"))
TransformEvents == {"speed_pitch", "volume", "fade"}
EditEvents == TransformEvents \cup {"gap", "silence", "between", "error_invalid",
                  "error_start_time", "error_speed_pitch", "error_fade", "error_between"}
\* the edit of the caller's list that the walk handled at position k (0-based)
HandledId(k) == modifications_sorted[k + 1].id

\* C1: the walk handles the edits in ascending start_time order whatever the
\* order of the caller's list, and edits of equal start_time in the order the
\* caller gave them: modifications_sorted holds every edit of the list once,
\* ascending by start_time, ties by position in the caller's list, and the
\* steps logged for the edits follow the positions of modifications_sorted.
C1_StableAscendingOrder ==
    Sorted =>
        /\ Len(modifications_sorted) = Len(modifications)
        /\ \A i \in 1..Len(modifications) :
               \E j \in 1..Len(modifications_sorted) :
                   modifications_sorted[j] = modifications[i]
        /\ \A i, j \in 1..Len(modifications_sorted) :
               i < j =>
                   /\ modifications_sorted[i].start_time[1] <= modifications_sorted[j].start_time[1]
                   /\ modifications_sorted[i].start_time[1] = modifications_sorted[j].start_time[1]
                          => modifications_sorted[i].id < modifications_sorted[j].id
        /\ \A p, q \in 1..Len(log) :
               (p < q /\ log[p][1] \in EditEvents /\ log[q][1] \in EditEvents)
                   => log[p][2] <= log[q][2] /\ log[q][2] < Len(modifications_sorted)

\* starts [K, 0, K]: handled as the second, then the first, then the third
C1_Witness ==
    /\ pc = "reassemble"
    /\ Len(modifications) = 3
    /\ modifications[1].start_time = Some(K)
    /\ modifications[2].start_time = Some(0)
    /\ modifications[3].start_time = Some(K)
    /\ HandledId(0) = 2 /\ HandledId(1) = 1 /\ HandledId(2) = 3
    /\ \A k \in 0..2 : \E p \in 1..Len(log) : log[p][2] = k /\ log[p][1] \in EditEvents

IsProsodyWithInvalidTimes(mod) ==
    /\ mod.type = "prosody"
    /\ mod.start_time # None
    /\ \/ mod.start_time[1] < 0
       \/ mod.end_time # None /\ mod.end_time[1] <= mod.start_time[1]

\* C2: a list that holds a prosody edit with start_time < 0 or
\* end_time <= start_time ends in a failure result, with no output written,
\* wherever the edit sits in the list.
C2_InvalidProsodyEditFails ==
    (pc = "done" /\ \E i \in 1..Len(modifications) : IsProsodyWithInvalidTimes(modifications[i]))
        => result = "failure" /\ output_file = None

\* C3 as stated: a run that ends with an invalid-edit failure has executed no
\* transform step (speed/pitch, volume, fade) on any edit.
C3_NoTransformBeforeInvalidFailure ==
    (pc = "done" /\ result = "failure" /\ log # <<>> /\ LastLog[1] = "error_invalid")
        => \A i \in 1..Len(log) : log[i][1] \notin TransformEvents

\* C3 as amended: an edit is validated before its own transform steps, not
\* before those of the edits sorted ahead of it.  Once an invalid edit is
\* reported the call is over: it is a failure with no output, nothing is
\* logged after the report, and every transform step logged belongs to an
\* edit sorted before the invalid one.
C3_ValidatedBeforeOwnTransform ==
    \A p \in 1..Len(log) :
        log[p][1] = "error_invalid" =>
            /\ p = Len(log)
            /\ pc = "done" /\ result = "failure"
            /\ output_file = None /\ final_audio = <<>>
            /\ \A i \in 1..Len(log) :
                   log[i][1] \in TransformEvents => log[i][2] < log[p][2]

\* a valid edit is faded, then the next edit is found invalid
C3_Witness ==
    /\ pc = "done" /\ result = "failure"
    /\ log # <<>> /\ LastLog = <<"error_invalid", 1>>
    /\ \E i \in 1..Len(log) : log[i] = <<"fade", 0>>

\* C4: an error raised by the speed/pitch transform of one edit is absorbed:
\* the call does not end in the failure that reports it.
C4_TransformErrorAbsorbed ==
    ~(pc = "done" /\ result = "failure" /\ log # <<>> /\ LastLog[1] = "error_speed_pitch")

ReadsSource(seg) == seg.kind \in {"gap", "edit", "trailing"} /\ seg.lo < seg.hi

\* C5: with prosody edits that overlap, the region taken for the later edit
\* begins where the earlier one ended, so that no source sample is part of
\* two of the appended segments.
C5_NoSourceSampleTwice ==
    (\A m \in 1..Len(modifications) : modifications[m].type = "prosody") =>
        \A i, j \in 1..Len(segments) :
            (i < j /\ ReadsSource(segments[i]) /\ ReadsSource(segments[j]))
                => segments[i].hi <= segments[j].lo

\* C6: after the normalization step of a run no sample exceeds 1.0 in
\* absolute value; the signal is divided by its peak when the peak exceeds
\* 1.0 and is left as it was otherwise (seen where no global speed change
\* stands between reassembly and normalization).
C6_NormalizedWithinUnit ==
    (pc = "save" \/ (pc = "done" /\ result = "success")) =>
        /\ \A i \in 1..Len(final_audio) : RLeq(RAbs(final_audio[i]), One)
        /\ opts.global_speed_change = 1 =>
               LET pre == Reassemble(Walk, opts.cross_fade_duration).val
                   peak == PeakOf(pre)
               IN  /\ Len(final_audio) = Len(pre)
                   /\ \A i \in 1..Len(pre) :
                          final_audio[i] = IF RLt(One, peak) THEN RDiv(pre[i], peak) ELSE pre[i]

\* a louder edit and a peak above 1.0: the signal was scaled down
C6_Witness ==
    /\ pc = "done" /\ result = "success"
    /\ LogHas("normalized") /\ LogHas("volume")
    /\ \E i \in 1..Len(final_audio) : RAbs(final_audio[i]) = One

\* C7: the buffer is not written during the walk where a later step reads it
\* again: what a gap slice or the trailing slice holds when the segments are
\* put together is what the file held.
C7_RereadSamplesOriginal ==
    \A i \in 1..Len(segments) :
        segments[i].kind \in {"gap", "trailing"}
            => Samples(segments[i], y) = Samples(segments[i], audio_file)

\* the rebuilt waveform the pre-pass is to give for runs given in samples
RECURSIVE ExpectedRebuild(_, _, _, _)
ExpectedRebuild(buf, runs, prev_end, keep_silence) ==
    IF runs = <<>> THEN SubSeq(buf, prev_end + 1, Len(buf))
    ELSE SubSeq(buf, prev_end + 1, Head(runs)[1]) \o Zeros(IntSamples(keep_silence))
             \o ExpectedRebuild(buf, Tail(runs), Head(runs)[2], keep_silence)

\* C8: with remove_silence set and a silent run found, the pre-pass succeeds
\* and the buffer becomes the non-silent spans in order with one keep_silence
\* pad for each removed run, the runs being usable as sample indices.
C8_SilenceRemoved ==
    LET found == detect_silence(audio_file, opts.min_silence_len, opts.silence_thresh)
        runs == [r \in 1..Len(found.val) |->
                    <<found.val[r].start_sec \div TicksPerSample,
                      found.val[r].end_sec \div TicksPerSample>>]
    IN  (pc # "remove_silence" /\ opts.remove_silence /\ found.ok /\ found.val # <<>>)
            => /\ ~LogHas("error_remove_silence")
               /\ LogHas("silence_removed")
               /\ (pc = "sort" => y = ExpectedRebuild(audio_file, runs, 0, opts.keep_silence))

IsNullProsody(mod) ==
    /\ mod.type = "prosody"
    /\ mod.speed_change = 1 /\ mod.pitch_shift = 0 /\ mod.volume_change = 0
    /\ mod.start_time # None /\ mod.end_time # None
    /\ mod.start_time[1] >= 0 /\ mod.end_time[1] > mod.start_time[1]

\* the sorted edits are null prosody edits that lie end to start from 0 to
\* the end of the waveform
NullEditsCoverAll ==
    /\ Len(modifications_sorted) >= 1
    /\ \A i \in 1..Len(modifications_sorted) : IsNullProsody(modifications_sorted[i])
    /\ modifications_sorted[1].start_time[1] = 0
    /\ \A i \in 1..(Len(modifications_sorted) - 1) :
           modifications_sorted[i + 1].start_time = modifications_sorted[i].end_time
    /\ modifications_sorted[Len(modifications_sorted)].end_time[1] >= total_duration_sec

\* sample i of the waveform lies within the fade window of an edit boundary
InFadeWindow(i) ==
    \E k \in 1..Len(modifications_sorted) :
        LET lo == IntSamples(modifications_sorted[k].start_time[1])
            hi == Min(IntSamples(modifications_sorted[k].end_time[1]), Len(audio_file))
            f == Min(IntSamples(opts.fade_duration), hi - lo)
        IN  (lo < i /\ i <= lo + f) \/ (hi - f < i /\ i <= hi)

ReproducesInput ==
    /\ Len(final_audio) = Len(audio_file)
    /\ \A i \in 1..Len(audio_file) : ~InFadeWindow(i) => final_audio[i] = audio_file[i]

PlainCall ==
    /\ ~opts.remove_silence
    /\ opts.global_speed_change = 1
    /\ RLeq(PeakOf(audio_file), One)

\* C9 as stated: null prosody edits (speed 1.0, pitch 0.0, volume 0.0) that
\* cover the whole duration, one or several adjacent ones, give back the
\* input: as many samples, each equal to the input's outside the fade windows
\* (stated for crossfade windows of one sample or more, as the defaults give).
C9_NullEditsReproduceInput ==
    (pc = "save" /\ PlainCall /\ NullEditsCoverAll
     /\ IntSamples(opts.cross_fade_duration) >= 1) => ReproducesInput

\* C9 as amended: one null prosody edit over the whole duration, with a fade
\* window of one sample or more, gives back the input (a waveform of one
\* sample or more within [-1, 1], no global speed change): the call fails at most on writing the
\* file, and the signal it writes has as many samples as the input, each
\* equal to the input's outside the first and the last fade_samples.  Several
\* adjacent edits do not: a silence block goes between them and every joint
\* is crossfaded, which changes the length.
C9_OneNullEditReproducesInput ==
    (/\ PlainCall /\ NullEditsCoverAll /\ Len(modifications) = 1
     /\ IntSamples(opts.fade_duration) >= 1 /\ Len(audio_file) >= 1)
        => /\ pc = "save" => ReproducesInput
           /\ pc = "done" => (result = "success" \/ (result = "failure" /\ LogHas("error_save")))

\* one null edit over three samples with a fade of one sample: the middle
\* sample is the input's, the first one is faded to zero
C9_Witness ==
    /\ pc = "save" /\ PlainCall /\ IntSamples(opts.fade_duration) >= 1 /\ NullEditsCoverAll /\ Len(modifications) = 1
    /\ Len(audio_file) >= 3
    /\ ~InFadeWindow(2) /\ final_audio[2] = audio_file[2] /\ audio_file[2] # Zero
    /\ InFadeWindow(1) /\ final_audio[1] # audio_file[1]

IsValidSilence(mod) ==
    /\ mod.type = "silence"
    /\ mod.start_time # None
    /\ mod.start_time[1] >= 0 /\ mod.start_time[1] <= total_duration_sec
    /\ mod.duration > 0

RemoveAt(s, p) == SubSeq(s, 1, p - 1) \o SubSeq(s, p + 1, Len(s))
LibReturns == [raises |-> FALSE, amp |-> <<1, 2>>]

SignalWithout(p) == ModifiedSignal(audio_file, RemoveAt(modifications, p), LibReturns, opts)
\* a call that gave a signal, with neither the silence pre-pass nor a global
\* speed change
WalkOnlyCall ==
    /\ pc = "save"
    /\ ~opts.remove_silence /\ opts.global_speed_change = 1

C11_NonPositiveSilenceRejected ==
    (pc = "done" /\ \E i \in 1..Len(modifications) :
                      modifications[i].type = "silence" /\ modifications[i].duration <= 0)
        => result = "failure" /\ output_file = None

\* the value a direct call of helper fn returned, once it has returned
Returned(fn) == call = fn /\ ret # None

\* C12: crossfade_segments never fails: for any two segments and any window it
\* returns len(seg1) + len(seg2) - w samples, w = min(int(crossfade_duration
\* * sr), len(seg1), len(seg2)), that begin with the first len(seg1) - w samples
\* of seg1 and end with the last len(seg2) - w samples of seg2.
C12_CrossfadeNeverFails ==
    Returned("crossfade_segments") =>
        LET n1 == Len(args.seg1)
            n2 == Len(args.seg2)
            w == Min(IntSamples(args.crossfade_duration), Min(n1, n2))
            r == ret[1]
        IN  /\ r.ok
            /\ Len(r.val) = n1 + n2 - w
            /\ SubSeq(r.val, 1, n1 - w) = SubSeq(args.seg1, 1, n1 - w)
            /\ SubSeq(r.val, n1 + 1, n1 + n2 - w) = SubSeq(args.seg2, w + 1, n2)

\* C13: apply_fade fades over min(int(fade_duration * sr), len(segment) // 2)
\* samples at each end, so that every sample is multiplied by at most one of
\* the two ramps.
C13_FadeWindowsNeverOverlap ==
    Returned("apply_fade") =>
        LET n == Len(args.y)
            w == Min(IntSamples(args.fade_duration), n \div 2)
            r == ret[1]
        IN  /\ r.ok
            /\ Len(r.val) = n
            /\ \A i \in 1..n :
                   r.val[i] = IF i <= w THEN RMul(args.y[i], LinUp(w, i - 1))
                              ELSE IF i > n - w THEN RMul(args.y[i], LinDown(w, i - (n - w) - 1))
                              ELSE args.y[i]

\* the edit the walk is about to process, and the segments a step appended
AtEdit == pc = "walk" /\ idx < Len(modifications_sorted)
Appended == SubSeq(segments', Len(segments) + 1, Len(segments'))
GapSlice(start_time) ==
    IF start_time > last_end_sec
    THEN <<View(Len(y), IntSamples(last_end_sec), IntSamples(start_time), "gap")>>
    ELSE <<>>

\* C14: the step that processes a valid silence edit appends the unmodified
\* slice [last_end, start_time) only when start_time > last_end, then one
\* block of zeros of the requested duration (its whole samples), and sets
\* last_end to start_time: the block's duration is not added to last_end and
\* the source buffer is left as it was.
C14_SilenceEditStep ==
    [][(AtEdit /\ IsValidSilence(modifications_sorted[idx + 1])) =>
         LET mod == modifications_sorted[idx + 1]
             block == Appended[Len(Appended)]
         IN  /\ SubSeq(segments', 1, Len(segments)) = segments
             /\ Len(Appended) = Len(GapSlice(mod.start_time[1])) + 1
             /\ SubSeq(Appended, 1, Len(Appended) - 1) = GapSlice(mod.start_time[1])
             /\ ~block.view /\ block.kind = "silence"
             /\ Len(block.data) * TicksPerSample <= mod.duration
             /\ mod.duration < (Len(block.data) + 1) * TicksPerSample
             /\ \A i \in 1..Len(block.data) : block.data[i] = Zero
             /\ last_end_sec' = mod.start_time[1]
             /\ y' = y
             /\ idx' = idx + 1 /\ pc' = "walk"]_vars

\* a silence of two samples was put in after the gap [0, start_time), and a
\* second one at the same start_time with no gap before it
C14_Witness ==
    /\ pc = "walk" /\ idx = 2
    /\ IsValidSilence(modifications_sorted[1]) /\ IsValidSilence(modifications_sorted[2])
    /\ modifications_sorted[1].start_time[1] > 0
    /\ modifications_sorted[2].start_time = modifications_sorted[1].start_time
    /\ Len(segments) = 3
    /\ segments[1].kind = "gap" /\ segments[2].kind = "silence" /\ segments[3].kind = "silence"
    /\ Len(segments[2].data) = 2
    /\ last_end_sec = modifications_sorted[1].start_time[1]

IsValidProsody(mod) ==
    /\ mod.type = "prosody"
    /\ mod.start_time # None /\ mod.end_time # None
    /\ mod.start_time[1] >= 0 /\ mod.end_time[1] > mod.start_time[1]

\* C15: the step that processes a valid prosody edit, when it completes
\* (idx moves on), has clamped end_time to the total duration, appended the
\* unmodified slice [last_end, start_time) only when start_time > last_end,
\* appended last the segment extracted from [start_time, clamped end_time),
\* and set last_end to the clamped end_time.
C15_ProsodyEditStep ==
    [][(AtEdit /\ IsValidProsody(modifications_sorted[idx + 1]) /\ idx' = idx + 1) =>
         LET mod == modifications_sorted[idx + 1]
             end_time == Min(mod.end_time[1], total_duration_sec)
             gap == GapSlice(mod.start_time[1])
             segment == Appended[Len(Appended)]
         IN  /\ SubSeq(segments', 1, Len(segments)) = segments
             /\ Len(Appended) >= Len(gap) + 1
             /\ SubSeq(Appended, 1, Len(gap)) = gap
             /\ \A i \in (Len(gap) + 1)..(Len(Appended) - 1) : Appended[i].kind = "between"
             /\ segment.kind = "edit"
             /\ segment.lo = Min(IntSamples(mod.start_time[1]), Len(y))
             /\ segment.hi = Max(segment.lo, IntSamples(end_time))
             /\ (mod.speed_change = 1 /\ mod.pitch_shift = 0)
                    => Len(Samples(segment, y')) = segment.hi - segment.lo
             /\ last_end_sec' = end_time]_vars

\* an edit that ends past the end of the waveform was processed after a gap:
\* the cursor is at the total duration
C15_Witness ==
    /\ pc = "walk" /\ idx = 1
    /\ IsValidProsody(modifications_sorted[1])
    /\ modifications_sorted[1].start_time[1] > 0
    /\ modifications_sorted[1].end_time[1] > total_duration_sec
    /\ Len(segments) = 2 /\ segments[1].kind = "gap" /\ segments[2].kind = "edit"
    /\ segments[2].hi = Len(y) /\ segments[2].hi > segments[2].lo
    /\ last_end_sec = total_duration_sec

\* the position in segments of the segment of the k-th edit of the sorted
\* list (its transformed segment or its silence block), once the walk is over
IsEditSegment(p) == segments[p].kind \in {"edit", "silence"}
EditSegmentPos(k) ==
    CHOOSE p \in 1..Len(segments) :
        IsEditSegment(p) /\ Cardinality({q \in 1..p : IsEditSegment(q)}) = k
BetweenBlocks(from, to) ==
    {p \in (from + 1)..(to - 1) :
        /\ segments[p].kind = "between"
        /\ segments[p].data = Zeros(IntSamples(opts.silence_between_mods))}

\* C16: once the walk is over, every prosody edit that is not the last of the
\* sorted list has exactly one block of silence_between_mods seconds between
\* its own segment and the segment of the next edit, and the last edit of the
\* list has none after its segment.
C16_SilenceBetweenEditAndNext ==
    pc = "reassemble" =>
        \A k \in 1..Len(modifications_sorted) :
            modifications_sorted[k].type = "prosody" =>
                IF k < Len(modifications_sorted)
                THEN Cardinality(BetweenBlocks(EditSegmentPos(k), EditSegmentPos(k + 1))) = 1
                ELSE BetweenBlocks(EditSegmentPos(k), Len(segments) + 1) = {}

\* C17: a prosody edit whose region is empty after clamping (start_time at
\* the total duration, end_time past it), alone in the list and with no
\* change asked for, gives an empty segment without error: unless writing the
\* file fails, the call returns success and the output is the whole input.
C17_ZeroLengthRegionSucceeds ==
    (/\ pc = "done" /\ PlainCall
     /\ Len(modifications) = 1 /\ IsNullProsody(modifications[1])
     /\ modifications[1].start_time[1] = total_duration_sec
     /\ ~LogHas("error_save"))
        => /\ result = "success"
           /\ Len(output_file[1]) = Len(audio_file)

\* sample i (1-based) of the waveform given to detect_silence is silent
SilentSample(i) == IsSilent(args.y[i], PeakOf(args.y), args.silence_thresh)
\* the samples a+1..b, that is [a, b) 0-based, are a maximal run of silent samples
IsMaximalRun(a, b) ==
    /\ a < b
    /\ \A i \in (a + 1)..b : SilentSample(i)
    /\ a = 0 \/ ~SilentSample(a)
    /\ b = Len(args.y) \/ ~SilentSample(b + 1)
QualifyingRuns ==
    {r \in (0..Len(args.y)) \X (0..Len(args.y)) :
        IsMaximalRun(r[1], r[2]) /\ (r[2] - r[1]) * TicksPerSample >= args.min_silence_len}

\* C18: on a waveform of one sample or more detect_silence returns, and what
\* it reports is exactly the maximal runs of consecutive silent samples that
\* last min_silence_len or more (length in samples >= min_silence_len * sr),
\* each once, in ascending order and disjoint, the run that touches the end
\* of the waveform included; each run is given by the times start / sr and
\* end / sr of its first sample and of the sample after its last.
C18_MaximalSilentRuns ==
    (Returned("detect_silence") /\ Len(args.y) >= 1) =>
        LET r == ret[1]
        IN  /\ r.ok
            /\ {<<r.val[j].start_sec, r.val[j].end_sec>> : j \in 1..Len(r.val)}
                   = {<<q[1] * TicksPerSample, q[2] * TicksPerSample>> : q \in QualifyingRuns}
            /\ Len(r.val) = Cardinality(QualifyingRuns)
            /\ \A j \in 1..(Len(r.val) - 1) : r.val[j].end_sec < r.val[j + 1].start_sec

\* a run at the end of the waveform is reported and a shorter run before it
\* is not
C18_Witness ==
    /\ Returned("detect_silence") /\ ret[1].ok
    /\ Len(ret[1].val) = 1
    /\ ret[1].val[1].end_sec = Len(args.y) * TicksPerSample
    /\ \E a, b \in 0..Len(args.y) :
           IsMaximalRun(a, b) /\ (b - a) * TicksPerSample < args.min_silence_len

\* C19: for every duration >= 0 insert_silence returns round(duration * sr)
\* zeros, also where duration * sr has a fractional part of 0.5 or more.
C19_SilenceRoundsDuration ==
    (Returned("insert_silence") /\ args.duration >= 0) =>
        /\ ret[1].ok
        /\ ret[1].val = Zeros(RoundHalfEven(args.duration, TicksPerSample))

\* last_end_sec after the first k edits of the sorted list, for valid edits
RECURSIVE CursorAfter(_)
CursorAfter(k) ==
    IF k = 0 THEN 0
    ELSE LET mod == modifications_sorted[k]
         IN  IF mod.type = "prosody" THEN Min(mod.end_time[1], total_duration_sec)
             ELSE mod.start_time[1]
\* all times of the sorted edits are valid and no edit starts before the
\* cursor the edits before it leave
ValidWithoutOverlap ==
    \A k \in 1..Len(modifications_sorted) :
        /\ IsValidProsody(modifications_sorted[k])
              \/ (IsValidSilence(modifications_sorted[k]))
        /\ modifications_sorted[k].start_time[1] >= CursorAfter(k - 1)
IsSourceSlice(seg) == seg.kind \in {"gap", "edit", "trailing"}

\* C20: for a list of valid edits none of which starts before last_end, once
\* the walk and the trailing slice are done, the source ranges [lo, hi) of
\* the gap slices, edit regions and trailing slice, in the order they were
\* appended, are disjoint and ascending and cover the samples 0..N-1 once:
\* the first begins at 0, each begins where the one before ends, the last
\* ends at N.
C20_SourceCoveredOnce ==
    (pc = "reassemble" /\ ValidWithoutOverlap) =>
        LET src == SelectSeq(segments, IsSourceSlice)
        IN  /\ \A i \in 1..Len(src) : src[i].lo <= src[i].hi
            /\ \A i \in 1..(Len(src) - 1) : src[i].hi = src[i + 1].lo
            /\ Len(src) = 0 => Len(y) = 0
            /\ Len(src) > 0 => (src[1].lo = 0 /\ src[Len(src)].hi = Len(y))

\* a silence and a prosody edit away from both ends: a gap slice, the edit's
\* region and the trailing slice, one sample or more each
C20_Witness ==
    /\ pc = "reassemble" /\ ValidWithoutOverlap
    /\ Len(modifications_sorted) = 2
    /\ \E k \in 1..2 : modifications_sorted[k].type = "silence"
    /\ \E i, j, l \in 1..Len(segments) :
           /\ i < j /\ j < l
           /\ segments[i].kind = "gap" /\ segments[i].lo < segments[i].hi
           /\ segments[j].kind = "edit" /\ segments[j].lo < segments[j].hi
           /\ segments[l].kind = "trailing" /\ segments[l].lo < segments[l].hi

\* C21: the cursor last_end_sec never decreases during the walk of the sorted
\* edit list, whatever the list: no iteration of the loop leaves it below the
\* value it had before (overlapping edits and a silence that starts inside a
\* processed prosody region included).
C21_CursorNeverDecreases ==
    [][pc = "walk" => last_end_sec' >= last_end_sec]_vars

\* the walk and the steps after it, while the call has not returned
Walking == pc \in {"walk", "reassemble", "global", "normalize", "save"}

\* C22: in every state of the walk of a call that has not returned, the
\* cursor lies within the audio: 0 <= last_end_sec <= total_duration_sec.
C22_CursorWithinAudio ==
    Walking => (0 <= last_end_sec /\ last_end_sec <= total_duration_sec)

\* the walk has gone through a prosody edit that ends past the audio and a
\* silence at the very end of it: the cursor stands at the total duration,
\* once by the clamp of end_time and once by the bound on start_time
C22_Witness ==
    /\ pc = "walk" /\ idx = 2
    /\ modifications_sorted[1].type = "prosody"
    /\ modifications_sorted[1].end_time[1] > total_duration_sec
    /\ modifications_sorted[2].type = "silence"
    /\ modifications_sorted[2].start_time[1] = total_duration_sec
    /\ last_end_sec = total_duration_sec
    /\ total_duration_sec > 0

\* C23: modify_prosody always ends by returning a result value, success with
\* an output file or failure with a message, and lets no exception out,
\* whatever the edit list (a prosody edit without start_time or end_time and
\* a silence with a negative duration included).
C23_AlwaysReturnsResult ==
    (pc = "done" /\ call = "none") =>
        \/ result = "success" /\ output_file # None
        \/ result = "failure"

\* the model's own run and ModifiedSignal agree (lengths: the library's
\* sample values are open)
RunMatchesModifiedSignal ==
    (pc = "save" /\ ~opts.remove_silence /\ opts.global_speed_change = 1) =>
        LET r == ModifiedSignal(audio_file, modifications, LibReturns, opts)
        IN  r.ok /\ Len(r.val) = Len(final_audio)

====
